---- MODULE Spec2Model ----
(***************************************************************************)
(* webAccessConnector-1.1.js: the per-call request state machine           *)
(* (webAccessConnector.webAccessRequest) on top of the ajax helper, and    *)
(* the attribute traversal of metadata.getAttributesForObject.             *)
(***************************************************************************)
EXTENDS Integers, Sequences, FiniteSets, TLC

VARIABLES
    connectionInfo,     \* argument of the webAccessConnector constructor
    parameters,         \* argument of the webAccessRequest constructor
    m_loginAttempted,
    m_autoLogOff,
    m_loggedOn,
    m_loggedOff,
    m_result,
    m_resultIsSuccess,
    pending,            \* XMLHttpRequests sent and not yet completed
    issued,             \* every ajax.call made so far, in order
    answered,           \* every completed exchange with its response, in order
    delivered,          \* every invocation of the caller's onLoad / onError, in order
    processed,          \* every invocation of parameters.responseProcessor, in order
    schema,             \* the service's metadata: the attribute rows of each class of a chain
    attributesArray,    \* getAttributesForObject: var attributesArray
    attributeNames,     \* getAttributesForObject: var attributeNames
    querying,           \* objectGuids whose runQuery has not called back yet
    queries,            \* the objectGuid of every query getAttributes issued, in order
    attrDelivered,      \* every invocation of the caller's onLoad / onError, in order
    queryString,        \* the argument of parseQueryUrl
    parseResult,        \* what parseQueryUrl returned
    requests,           \* several webAccessRequests of one connector, each with its state
    session             \* whether the service's session of this browser is logged on

requestVars == <<connectionInfo, parameters, m_loginAttempted, m_autoLogOff, m_loggedOn,
                 m_loggedOff, m_result, m_resultIsSuccess, pending, issued, answered,
                 delivered, processed>>

metadataVars == <<schema, attributesArray, attributeNames, querying, queries,
                  attrDelivered>>

parserVars == <<queryString, parseResult>>

sharedVars == <<requests, session>>

vars == <<requestVars, metadataVars, parserVars, sharedVars>>

-----------------------------------------------------------------------------
(* Values *)

\* m_result before any handler ran (var m_result = null)
NullResult == [isNull |-> TRUE]

\* parameters before a facade operation constructed the request
NoRequest ==
    [operation |-> "none", commandPath |-> "undefined", requestType |-> "undefined",
     requestData |-> "undefined", responseProcessor |-> FALSE, requireJSON |-> FALSE,
     onLoad |-> FALSE, onError |-> FALSE]

webAccessUrl == "http://host/wa"

\* webAccessConnector.requestType
requestType == [get |-> "GET", post |-> "POST"]

\* Parsed JSON bodies the service can send.
QueryPage1 == [pageCount |-> 1, objectCount |-> 0, objects |-> 2]
QueryPageN == [pageCount |-> 2, objectCount |-> 7, objects |-> 2]
LogonOk == [result |-> TRUE]
LogonRejected == [result |-> FALSE, message |-> "Invalid credentials"]
ErrorJson == [message |-> "Session expired"]
\* the JSON text "null": JSON.parse gives null
JsonNull == [null |-> TRUE]

JsonValues == {QueryPage1, QueryPageN, LogonOk, LogonRejected, ErrorJson, JsonNull}

\* responseText of a response: JSON text, or text that is not JSON (an error
\* page carrying the exceptionMessage marker, or anything else).
JsonText(v) == [kind |-> "json", value |-> v]
ErrorPage == [kind |-> "html", exceptionMessage |-> "Object not found"]
PlainText == [kind |-> "text"]

\* The XMLHttpRequest once it completed: the event fired (load / error), status,
\* statusText, whether X-RequestUrl names Logon/IntegratedLogonFailed.rails,
\* and responseText.
Xhr(ev, st, stText, integ, body) ==
    [event |-> ev, status |-> st, statusText |-> stText,
     integratedLogonFailed |-> integ, responseText |-> body]

Responses ==
    {Xhr("load", 200, "OK", FALSE, JsonText(v)) : v \in JsonValues \ {ErrorJson}}
    \cup {Xhr("load", 200, "OK", FALSE, PlainText),
          Xhr("load", 200, "OK", FALSE, ErrorPage),
          Xhr("load", 200, "OK", TRUE, PlainText),
          Xhr("load", 403, "Forbidden", FALSE, PlainText),
          Xhr("load", 403, "Forbidden", FALSE, JsonText(ErrorJson)),
          Xhr("load", 500, "Internal Server Error", FALSE, ErrorPage),
          Xhr("error", 0, "", FALSE, PlainText)}

-----------------------------------------------------------------------------
(* The state the handlers of one webAccessRequest read and write, as a record *)

St ==
    [parameters |-> parameters, m_loginAttempted |-> m_loginAttempted, m_autoLogOff |-> m_autoLogOff,
     m_loggedOn |-> m_loggedOn, m_loggedOff |-> m_loggedOff, m_result |-> m_result,
     m_resultIsSuccess |-> m_resultIsSuccess, pending |-> pending, issued |-> issued,
     delivered |-> delivered, processed |-> processed]

Becomes(s) ==
    /\ parameters' = s.parameters
    /\ m_loginAttempted' = s.m_loginAttempted
    /\ m_autoLogOff' = s.m_autoLogOff
    /\ m_loggedOn' = s.m_loggedOn
    /\ m_loggedOff' = s.m_loggedOff
    /\ m_result' = s.m_result
    /\ m_resultIsSuccess' = s.m_resultIsSuccess
    /\ pending' = s.pending
    /\ issued' = s.issued
    /\ delivered' = s.delivered
    /\ processed' = s.processed

\* obj.key = value on a JavaScript object
SetField(obj, key, value) ==
    [k \in DOMAIN obj \cup {key} |-> IF k = key THEN value ELSE obj[k]]

-----------------------------------------------------------------------------
(* webAccessConnector.ajax *)

\* ajax.call: opens and sends one XMLHttpRequest; onLoad / onError name the
\* callbacks its onload / onerror handlers will use.
ajax_call(s, via, url, reqType, data, onLoad, onError, requireJSON) ==
    LET x == [id |-> Len(s.issued) + 1, via |-> via, url |-> url,
              requestType |-> reqType, data |-> data, onLoad |-> onLoad,
              onError |-> onError, requireJSON |-> requireJSON]
    IN [s EXCEPT !.pending = @ \cup {x}, !.issued = Append(@, x)]

\* JSON.parse(responseText)
JSON_parse(text) ==
    IF text.kind = "json" THEN [ok |-> TRUE, data |-> text.value] ELSE [ok |-> FALSE]

\* ajax.onAjaxError passing on the text it was given when the body has no message
ajaxErrorText_NoStatus(response, errorText) ==
    IF errorText = "" /\ response.status = 0
    THEN "Connection Failed"
    ELSE LET parsed == JSON_parse(response.responseText)
         IN IF parsed.ok /\ "message" \in DOMAIN parsed.data /\ parsed.data.message # ""
            THEN parsed.data.message
            ELSE IF "exceptionMessage" \in DOMAIN response.responseText
                 THEN response.responseText.exceptionMessage
                 ELSE errorText

\* The error text ajax.onAjaxError passes to its callback.
ajaxErrorText(response, errorText) ==
    IF errorText = "" /\ response.status = 0
    THEN "Connection Failed"
    ELSE LET parsed == JSON_parse(response.responseText)
         IN IF parsed.ok /\ "message" \in DOMAIN parsed.data /\ parsed.data.message # ""
            THEN parsed.data.message
            ELSE IF "exceptionMessage" \in DOMAIN response.responseText
                 THEN response.responseText.exceptionMessage
                 ELSE errorText \o " (" \o ToString(response.status) \o ")"

\* What the onload / onerror handler of ajax.call does with the completed
\* request: which callback is invoked ("load" or "error") and with what.
ajaxOutcome(response, requireJSON) ==
    LET failure(text) ==
            [callback |-> "error", statusCode |-> response.status,
             errorText |-> ajaxErrorText(response, text)]
        parsed == JSON_parse(response.responseText)
    IN IF response.event = "error" THEN failure(response.statusText)
       ELSE IF response.status # 200 THEN failure(response.statusText)
       ELSE IF response.integratedLogonFailed THEN failure("Integrated Logon Failed")
       ELSE IF ~parsed.ok /\ requireJSON THEN failure("Invalid Response")
       ELSE [callback |-> "load",
             responseData |-> IF parsed.ok THEN parsed.data ELSE response.responseText]

-----------------------------------------------------------------------------
(* webAccessConnector.webAccessRequest *)

\* reading a property of null throws a TypeError
TypeError(responseData) == responseData = JsonNull

\* _queryResponseProcessor correcting objectCount whatever pageCount is
_queryResponseProcessor_AnyPageCount(responseData) ==
    IF "pageCount" \in DOMAIN responseData
    THEN [responseData EXCEPT !.objectCount = responseData.objects]
    ELSE responseData

\* query._queryResponseProcessor: the objects array is modelled by its length
_queryResponseProcessor(responseData) ==
    IF "pageCount" \in DOMAIN responseData /\ responseData.pageCount = 1
    THEN [responseData EXCEPT !.objectCount = responseData.objects]
    ELSE responseData

\* this.go
go(s) ==
    ajax_call(s, "go", webAccessUrl \o s.parameters.commandPath, s.parameters.requestType,
              s.parameters.requestData, "m_onLoad", "m_onError", s.parameters.requireJSON)


\* this.logOn without m_loggedOn = true
logOn_FlagNotSet(s, onDemand) ==
    LET s1 == [s EXCEPT !.m_loginAttempted = TRUE]
        onLoad == IF onDemand THEN "m_loginOnDemandOnLoad" ELSE "m_onLoad"
    IN ajax_call(s1, "logOn", webAccessUrl \o "/wd/Logon/Logon.rails", requestType.post,
                 "formData", onLoad, "m_onError", TRUE)

\* this.logOn
logOn(s, onDemand) ==
    LET s1 == [s EXCEPT !.m_loginAttempted = TRUE, !.m_loggedOn = TRUE]
        onLoad == IF onDemand THEN "m_loginOnDemandOnLoad" ELSE "m_onLoad"
    IN ajax_call(s1, "logOn", webAccessUrl \o "/wd/Logon/Logon.rails", requestType.post,
                 "formData", onLoad, "m_onError", TRUE)


\* this.logOff reporting a failed logout through m_onError also on demand
logOff_ErrorSurfaces(s, onDemand) ==
    LET s1 == [s EXCEPT !.m_loggedOff = TRUE]
        onLoad == IF onDemand THEN "m_logOffDone" ELSE "m_onLoad"
    IN ajax_call(s1, "logOff", webAccessUrl \o "/wd/Logon/Logoff.rails", requestType.post,
                 "null", onLoad, "m_onError", FALSE)

\* this.logOff without m_loggedOff = true
logOff_FlagNotSet(s, onDemand) ==
    LET onLoad == IF onDemand THEN "m_logOffDone" ELSE "m_onLoad"
        onError == IF onDemand THEN "m_logOffDone" ELSE "m_onError"
    IN ajax_call(s, "logOff", webAccessUrl \o "/wd/Logon/Logoff.rails", requestType.post,
                 "null", onLoad, onError, FALSE)

\* this.logOff
logOff(s, onDemand) ==
    LET s1 == [s EXCEPT !.m_loggedOff = TRUE]
        onLoad == IF onDemand THEN "m_logOffDone" ELSE "m_onLoad"
        onError == IF onDemand THEN "m_logOffDone" ELSE "m_onError"
    IN ajax_call(s1, "logOff", webAccessUrl \o "/wd/Logon/Logoff.rails", requestType.post,
                 "null", onLoad, onError, FALSE)

m_returnLoad(s) ==
    LET r == SetField(SetField(s.m_result, "loggedOn", s.m_loggedOn),
                      "loggedOff", s.m_loggedOff)
    IN [s EXCEPT !.m_result = r,
                 !.delivered = IF s.parameters.onLoad
                               THEN Append(@, [callback |-> "onLoad", result |-> r])
                               ELSE @]

m_returnError(s) ==
    [s EXCEPT !.delivered = IF s.parameters.onError
                            THEN Append(@, [callback |-> "onError", result |-> s.m_result])
                            ELSE @]

\* m_onLoad invoking the response processor twice
m_onLoad_ProcessTwice(s, responseData, response) ==
    LET invoked == [data |-> responseData, exchanges |-> Len(s.issued)]
        data == IF s.parameters.responseProcessor
                THEN _queryResponseProcessor(_queryResponseProcessor(responseData))
                ELSE responseData
        s1 == [s EXCEPT !.m_result = [data |-> data, response |-> response,
                                      statusCode |-> response.status],
                        !.m_resultIsSuccess = TRUE,
                        !.processed = IF s.parameters.responseProcessor
                                      THEN @ \o <<invoked, invoked>> ELSE @]
    IN IF s.parameters.responseProcessor /\ TypeError(responseData)
       THEN [s EXCEPT !.processed = Append(@, invoked)]
       ELSE IF s1.m_autoLogOff THEN logOff(s1, TRUE) ELSE m_returnLoad(s1)

\* m_onLoad going on to m_returnLoad after starting the automatic logout
m_onLoad_NoReturnAfterLogOff(s, responseData, response) ==
    LET invoked == [data |-> responseData, exchanges |-> Len(s.issued)]
        data == IF s.parameters.responseProcessor
                THEN _queryResponseProcessor(responseData)
                ELSE responseData
        s1 == [s EXCEPT !.m_result = [data |-> data, response |-> response,
                                      statusCode |-> response.status],
                        !.m_resultIsSuccess = TRUE,
                        !.processed = IF s.parameters.responseProcessor
                                      THEN Append(@, invoked) ELSE @]
    IN IF s.parameters.responseProcessor /\ TypeError(responseData)
       THEN [s EXCEPT !.processed = Append(@, invoked)]
       ELSE IF s1.m_autoLogOff THEN m_returnLoad(logOff(s1, TRUE)) ELSE m_returnLoad(s1)

\* m_onLoad; `processed` records each invocation of the response processor:
\* the data it was given and how many exchanges had been issued by then.
\* The processor throws on null data, which ends the handler.
m_onLoad(s, responseData, response) ==
    LET invoked == [data |-> responseData, exchanges |-> Len(s.issued)]
        data == IF s.parameters.responseProcessor
                THEN _queryResponseProcessor(responseData)
                ELSE responseData
        s1 == [s EXCEPT !.m_result = [data |-> data, response |-> response,
                                      statusCode |-> response.status],
                        !.m_resultIsSuccess = TRUE,
                        !.processed = IF s.parameters.responseProcessor
                                      THEN Append(@, invoked) ELSE @]
    IN IF s.parameters.responseProcessor /\ TypeError(responseData)
       THEN [s EXCEPT !.processed = Append(@, invoked)]
       ELSE IF s1.m_autoLogOff THEN logOff(s1, TRUE) ELSE m_returnLoad(s1)


\* m_onError without the m_loginAttempted latch
m_onError_NoLatch(s, statusCode, errorText) ==
    IF statusCode = 403 /\ connectionInfo.loginOnDemand
    THEN logOn(s, TRUE)
    ELSE LET text == IF statusCode = 403 THEN "Not Logged In" ELSE errorText
             s1 == [s EXCEPT !.m_result = [statusCode |-> statusCode, errorText |-> text]]
         IN IF s1.m_autoLogOff THEN logOff(s1, TRUE) ELSE m_returnError(s1)

\* m_onError rewriting the text of every 403 it does not retry
m_onError_AlwaysRewrite(s, statusCode, errorText) ==
    IF statusCode = 403 /\ s.m_loginAttempted = FALSE /\ connectionInfo.loginOnDemand
    THEN logOn(s, TRUE)
    ELSE LET text == IF statusCode = 403 THEN "Not Logged In" ELSE errorText
             s1 == [s EXCEPT !.m_result = [statusCode |-> statusCode, errorText |-> text]]
         IN IF s1.m_autoLogOff THEN logOff(s1, TRUE) ELSE m_returnError(s1)

\* m_onError logging on after any failure, not only after 403
m_onError_AnyStatus(s, statusCode, errorText) ==
    IF s.m_loginAttempted = FALSE /\ connectionInfo.loginOnDemand
    THEN logOn(s, TRUE)
    ELSE LET text == IF statusCode = 403 /\ s.m_loginAttempted = FALSE
                     THEN "Not Logged In"
                     ELSE errorText
             s1 == [s EXCEPT !.m_result = [statusCode |-> statusCode, errorText |-> text]]
         IN IF s1.m_autoLogOff THEN logOff(s1, TRUE) ELSE m_returnError(s1)

\* m_onError replaying the call without waiting for the login to complete
m_onError_EagerReplay(s, statusCode, errorText) ==
    IF statusCode = 403 /\ s.m_loginAttempted = FALSE /\ connectionInfo.loginOnDemand
    THEN go(logOn(s, TRUE))
    ELSE LET text == IF statusCode = 403 /\ s.m_loginAttempted = FALSE
                     THEN "Not Logged In"
                     ELSE errorText
             s1 == [s EXCEPT !.m_result = [statusCode |-> statusCode, errorText |-> text]]
         IN IF s1.m_autoLogOff THEN logOff(s1, TRUE) ELSE m_returnError(s1)

\* m_onError reporting the failure before the automatic logout
m_onError_ReportBeforeLogOff(s, statusCode, errorText) ==
    IF statusCode = 403 /\ s.m_loginAttempted = FALSE /\ connectionInfo.loginOnDemand
    THEN logOn(s, TRUE)
    ELSE LET text == IF statusCode = 403 /\ s.m_loginAttempted = FALSE
                     THEN "Not Logged In"
                     ELSE errorText
             s1 == [s EXCEPT !.m_result = [statusCode |-> statusCode, errorText |-> text]]
         IN IF s1.m_autoLogOff THEN logOff(m_returnError(s1), TRUE) ELSE m_returnError(s1)

m_onError(s, statusCode, errorText) ==
    IF statusCode = 403 /\ s.m_loginAttempted = FALSE /\ connectionInfo.loginOnDemand
    THEN logOn(s, TRUE)
    ELSE LET text == IF statusCode = 403 /\ s.m_loginAttempted = FALSE
                     THEN "Not Logged In"
                     ELSE errorText
             s1 == [s EXCEPT !.m_result = [statusCode |-> statusCode, errorText |-> text]]
         IN IF s1.m_autoLogOff THEN logOff(s1, TRUE) ELSE m_returnError(s1)


\* m_loginOnDemandOnLoad without the check of responseData.result
m_loginOnDemandOnLoad_NoCheck(s, responseData, response) ==
    go(IF connectionInfo.loginOnDemandAutoLogOff
       THEN [s EXCEPT !.m_autoLogOff = TRUE]
       ELSE s)

\* responseData.result throws on null data, which ends the handler
m_loginOnDemandOnLoad(s, responseData, response) ==
    IF TypeError(responseData) THEN s
    ELSE IF "result" \in DOMAIN responseData /\ responseData.result = FALSE
    THEN m_onError(s, 403, IF "message" \in DOMAIN responseData
                           THEN responseData.message ELSE "undefined")
    ELSE go(IF connectionInfo.loginOnDemandAutoLogOff
            THEN [s EXCEPT !.m_autoLogOff = TRUE]
            ELSE s)

m_logOffDone(s) ==
    IF s.m_resultIsSuccess = TRUE THEN m_returnLoad(s) ELSE m_returnError(s)

\* req.onload / req.onerror of the XMLHttpRequest x, completed as `response`:
\* ajax.onAjaxSuccess / ajax.onAjaxError invoke the callback given to ajax.call.
xhrDone(s, x, response) ==
    LET o == ajaxOutcome(response, x.requireJSON)
    IN IF o.callback = "error"
       THEN IF x.onError = "m_onError"
            THEN m_onError(s, o.statusCode, o.errorText)
            ELSE m_logOffDone(s)
       ELSE CASE x.onLoad = "m_onLoad" -> m_onLoad(s, o.responseData, response)
              [] x.onLoad = "m_loginOnDemandOnLoad" ->
                     m_loginOnDemandOnLoad(s, o.responseData, response)
              [] OTHER -> m_logOffDone(s)

-----------------------------------------------------------------------------
(* The facade: each operation constructs one webAccessRequest and starts it *)

NewRequest(op, path, verb, data, processor, json, onLoad, onError) ==
    [operation |-> op, commandPath |-> path, requestType |-> verb, requestData |-> data,
     responseProcessor |-> processor, requireJSON |-> json,
     onLoad |-> onLoad, onError |-> onError]

Idle == parameters.operation = "none"

\* query.runQuery
runQuery ==
    /\ Idle
    /\ \E onLoad \in BOOLEAN, onError \in BOOLEAN :
          Becomes(go([St EXCEPT !.parameters =
              NewRequest("runQuery", "/query/list.rails", requestType.get,
                         "queryData", TRUE, TRUE, onLoad, onError)]))
    /\ UNCHANGED <<connectionInfo, answered, metadataVars, parserVars, sharedVars>>

\* record.openRecord
openRecord ==
    /\ Idle
    /\ \E onLoad \in BOOLEAN, onError \in BOOLEAN :
          Becomes(go([St EXCEPT !.parameters =
              NewRequest("openRecord", "/object/open.rails", requestType.get,
                         "openData", FALSE, TRUE, onLoad, onError)]))
    /\ UNCHANGED <<connectionInfo, answered, metadataVars, parserVars, sharedVars>>

\* action._invokeFunction (windowlessAction: requireJSON false, attachDetachAction: true)
invokeFunction ==
    /\ Idle
    /\ \E onLoad \in BOOLEAN, onError \in BOOLEAN, requireJSON \in BOOLEAN :
          Becomes(go([St EXCEPT !.parameters =
              NewRequest("invokeFunction", "/object/invokeFunction.rails",
                         requestType.post, "actionData", FALSE, requireJSON,
                         onLoad, onError)]))
    /\ UNCHANGED <<connectionInfo, answered, metadataVars, parserVars, sharedVars>>

\* user.logOn
userLogOn ==
    /\ Idle
    /\ \E onLoad \in BOOLEAN, onError \in BOOLEAN :
          Becomes(logOn([St EXCEPT !.parameters =
              NewRequest("logOn", "undefined", "undefined", "undefined",
                         FALSE, FALSE, onLoad, onError)], FALSE))
    /\ UNCHANGED <<connectionInfo, answered, metadataVars, parserVars, sharedVars>>

\* user.logOff
userLogOff ==
    /\ Idle
    /\ \E onLoad \in BOOLEAN, onError \in BOOLEAN :
          Becomes(logOff([St EXCEPT !.parameters =
              NewRequest("logOff", "undefined", "undefined", "undefined",
                         FALSE, FALSE, onLoad, onError)], FALSE))
    /\ UNCHANGED <<connectionInfo, answered, metadataVars, parserVars, sharedVars>>

-----------------------------------------------------------------------------
(* The transport completes an outstanding exchange *)

Respond ==
    \E x \in pending, response \in Responses :
        /\ Becomes(xhrDone([St EXCEPT !.pending = @ \ {x}], x, response))
        /\ answered' = Append(answered, [exchange |-> x, response |-> response])
        /\ UNCHANGED <<connectionInfo, metadataVars, parserVars, sharedVars>>

-----------------------------------------------------------------------------
\* no request constructed yet
NoRequestYet ==
    /\ parameters = NoRequest
    /\ m_loginAttempted = FALSE
    /\ m_autoLogOff = FALSE
    /\ m_loggedOn = FALSE
    /\ m_loggedOff = FALSE
    /\ m_result = NullResult
    /\ m_resultIsSuccess = FALSE
    /\ pending = {}
    /\ issued = <<>>
    /\ answered = <<>>
    /\ delivered = <<>>
    /\ processed = <<>>

\* getAttributesForObject not called yet
NoTraversalYet ==
    /\ attributesArray = <<>>
    /\ attributeNames = <<>>
    /\ querying = {}
    /\ queries = <<>>
    /\ attrDelivered = <<>>

\* parseQueryUrl not called
NotParsed == [called |-> FALSE]

NoParseYet ==
    /\ queryString = <<>>
    /\ parseResult = NotParsed

\* no concurrent requests constructed
NoRequestsYet ==
    /\ requests = <<>>
    /\ session = FALSE

\* new webAccessConnector(connectionInfo)
Init ==
    /\ connectionInfo \in [loginOnDemand : BOOLEAN, loginOnDemandAutoLogOff : BOOLEAN]
    /\ NoRequestYet
    /\ schema = <<>>
    /\ NoTraversalYet
    /\ NoParseYet
    /\ NoRequestsYet

Next ==
    \/ runQuery
    \/ openRecord
    \/ invokeFunction
    \/ userLogOn
    \/ userLogOff
    \/ Respond

Spec == Init /\ [][Next]_vars

-----------------------------------------------------------------------------
(* Reading the history of one request *)

\* what ajax.call's handlers made of the i-th completed exchange
OutcomeOf(i) == ajaxOutcome(answered[i].response, answered[i].exchange.requireJSON)

Failed(i) == OutcomeOf(i).callback = "error"
Loaded(i) == OutcomeOf(i).callback = "load"

\* the i-th completed exchange is a login (logOn) / a call of go() / a logout
IsLogin(i) == answered[i].exchange.via = "logOn"
IsCall(i) == answered[i].exchange.via = "go"
IsOnDemandLogin(i) == IsLogin(i) /\ answered[i].exchange.onLoad = "m_loginOnDemandOnLoad"

\* a 200 login response whose body has result = false
Rejected(i) ==
    /\ Loaded(i)
    /\ "result" \in DOMAIN OutcomeOf(i).responseData
    /\ OutcomeOf(i).responseData.result = FALSE

\* a 200 login response that m_loginOnDemandOnLoad takes as a successful login
LoginSucceeded(i) ==
    /\ IsOnDemandLogin(i) /\ Loaded(i) /\ ~Rejected(i)
    /\ ~TypeError(OutcomeOf(i).responseData)

\* the i-th completed exchange is the call go() made after an on-demand login
IsReplay(i) == IsCall(i) /\ \E j \in 1..(i - 1) : LoginSucceeded(j)

Logins == {k \in DOMAIN issued : issued[k].via = "logOn"}
Replays == {k \in DOMAIN issued : issued[k].via = "go" /\ \E j \in Logins : j < k}
Logouts == {k \in DOMAIN issued : issued[k].via = "logOff"}

Calls(callback) == {k \in DOMAIN delivered : delivered[k].callback = callback}

\* the i-th completed exchange loaded and m_onLoad ran to its end
Succeeded(i) ==
    /\ Loaded(i)
    /\ ~(parameters.responseProcessor /\ TypeError(OutcomeOf(i).responseData))

\* the data m_onLoad stores for the i-th completed exchange
DataOf(i) ==
    IF parameters.responseProcessor
    THEN _queryResponseProcessor(OutcomeOf(i).responseData)
    ELSE OutcomeOf(i).responseData

-----------------------------------------------------------------------------
(* C1: a request issues at most one login exchange and replays the original *)
(* call at most once; when the replay made after a successful on-demand     *)
(* login fails with 403, no further login or call is issued and the request *)
(* ends in a Failure (onError, never onLoad).                               *)
C1_OneLoginOneReplay ==
    /\ Cardinality(Logins) <= 1
    /\ Cardinality(Replays) <= 1
    /\ \A i \in DOMAIN answered :
          (IsReplay(i) /\ Failed(i) /\ OutcomeOf(i).statusCode = 403) =>
             /\ \A k \in DOMAIN issued :
                   k > answered[i].exchange.id => issued[k].via = "logOff"
             /\ m_resultIsSuccess = FALSE
             /\ Calls("onLoad") = {}
             /\ (pending = {} /\ parameters.onError) =>
                   (Len(delivered) = 1 /\ delivered[1].callback = "onError")

C1_Witness ==
    /\ \E i \in DOMAIN answered :
          IsReplay(i) /\ Failed(i) /\ OutcomeOf(i).statusCode = 403
    /\ pending = {}
    /\ Len(delivered) = 1

(* C2: with loginOnDemand, first call 403, on-demand login succeeds, replay  *)
(* succeeds: onLoad receives loggedOn = true and the data of the replayed    *)
(* call (not of the login response); onError is not called.                  *)
C2_ReplayDataDelivered ==
    (/\ connectionInfo.loginOnDemand
     /\ Len(answered) >= 3
     /\ Failed(1) /\ OutcomeOf(1).statusCode = 403
     /\ LoginSucceeded(2)
     /\ IsCall(3) /\ Succeeded(3)) =>
        /\ Calls("onError") = {}
        /\ (pending = {} /\ parameters.onLoad) =>
              /\ Len(delivered) = 1
              /\ delivered[1].callback = "onLoad"
              /\ delivered[1].result.loggedOn = TRUE
              /\ delivered[1].result.data = DataOf(3)
              /\ delivered[1].result.response = answered[3].response

C2_Witness ==
    /\ connectionInfo.loginOnDemand
    /\ Len(answered) >= 3
    /\ Failed(1) /\ OutcomeOf(1).statusCode = 403
    /\ LoginSucceeded(2)
    /\ IsCall(3) /\ Succeeded(3)
    /\ answered[2].response # answered[3].response
    /\ Len(delivered) = 1
    /\ delivered[1].callback = "onLoad"

(* C3: with loginOnDemandAutoLogOff, an operation that succeeded after an    *)
(* on-demand login is followed by one logout exchange; whether that logout   *)
(* succeeds or fails, onLoad receives the operation's own outcome (data and  *)
(* status code) with loggedOff = true, and onError is not called.            *)
C3_LogoutKeepsSuccess ==
    \A i \in DOMAIN answered :
        (connectionInfo.loginOnDemandAutoLogOff /\ IsReplay(i) /\ Succeeded(i)) =>
            /\ Len(issued) = i + 1
            /\ issued[i + 1].via = "logOff"
            /\ Calls("onError") = {}
            /\ Len(answered) > i =>
                  /\ pending = {}
                  /\ parameters.onLoad =>
                        /\ Len(delivered) = 1
                        /\ delivered[1].callback = "onLoad"
                        /\ delivered[1].result.data = DataOf(i)
                        /\ delivered[1].result.statusCode = answered[i].response.status
                        /\ delivered[1].result.loggedOff = TRUE

C3_Witness ==
    \E i \in DOMAIN answered :
        /\ connectionInfo.loginOnDemandAutoLogOff /\ IsReplay(i) /\ Succeeded(i)
        /\ Len(answered) = i + 1
        /\ answered[i + 1].exchange.via = "logOff"
        /\ Failed(i + 1)
        /\ Len(delivered) = 1
        /\ delivered[1].callback = "onLoad"

(* C4: every outcome handed to onLoad or onError carries the loggedOn and    *)
(* loggedOff flags, equal to the request's flags at that moment.             *)
C4_EveryOutcomeStamped ==
    \A k \in DOMAIN delivered :
        /\ {"loggedOn", "loggedOff"} \subseteq DOMAIN delivered[k].result
        /\ delivered[k].result.loggedOn = m_loggedOn
        /\ delivered[k].result.loggedOff = m_loggedOff

\* the i-th completed exchange reported 403 to m_onError and no login followed
NotRetried403(i) ==
    /\ answered[i].exchange.onError = "m_onError"
    /\ Failed(i)
    /\ OutcomeOf(i).statusCode = 403
    /\ ~(\E k \in Logins : k > answered[i].exchange.id)

(* C5 as stated: every Failure caused by a 403 answer to the call that is    *)
(* not retried delivers the error text "Not Logged In", also when a login    *)
(* was already attempted for the request.                                    *)
C5_AlwaysNotLoggedIn ==
    \A i \in DOMAIN answered :
        (IsCall(i) /\ NotRetried403(i)) =>
            \A k \in Calls("onError") : delivered[k].result.errorText = "Not Logged In"

(* C5 amended: a 403 that is not retried delivers "Not Logged In" when no    *)
(* login was attempted for the request (loginOnDemand disabled); when a      *)
(* login was already attempted, the 403's own error text is delivered.       *)
C5_NotLoggedInUnlessAttempted ==
    \A i \in DOMAIN answered :
        NotRetried403(i) =>
            \A k \in Calls("onError") :
                delivered[k].result.errorText =
                    IF \E j \in Logins : j <= answered[i].exchange.id
                    THEN OutcomeOf(i).errorText
                    ELSE "Not Logged In"

C5_Witness ==
    /\ \E i \in DOMAIN answered : NotRetried403(i) /\ IsReplay(i)
    /\ Calls("onError") # {}
    /\ \A k \in Calls("onError") : delivered[k].result.errorText # "Not Logged In"

(* C6: when the on-demand login fails (its exchange fails, or its 200 body   *)
(* has result = false) the original call is not replayed, no logout is       *)
(* issued, and onError receives the login's own error text.                  *)
C6_LoginFailureSurfaces ==
    \A i \in DOMAIN answered :
        (IsOnDemandLogin(i) /\ (Failed(i) \/ Rejected(i))) =>
            /\ Len(issued) = answered[i].exchange.id
            /\ pending = {}
            /\ Calls("onLoad") = {}
            /\ parameters.onError =>
                  /\ Len(delivered) = 1
                  /\ delivered[1].callback = "onError"
                  /\ delivered[1].result.errorText =
                        IF Failed(i) THEN OutcomeOf(i).errorText
                        ELSE OutcomeOf(i).responseData.message

C6_Witness ==
    \E i \in DOMAIN answered :
        /\ IsOnDemandLogin(i) /\ Rejected(i)
        /\ Len(delivered) = 1
        /\ delivered[1].result.errorText = "Invalid credentials"

(* C7: when the first exchange fails with a status other than 403, nothing   *)
(* else is issued and onError receives exactly the transport's status code   *)
(* and error text, whatever loginOnDemand is.                                *)
C7_OtherErrorsVerbatim ==
    (Len(answered) >= 1 /\ Failed(1) /\ OutcomeOf(1).statusCode # 403) =>
        /\ Len(issued) = 1
        /\ Calls("onLoad") = {}
        /\ parameters.onError =>
              delivered = <<[callback |-> "onError",
                             result |-> [statusCode |-> OutcomeOf(1).statusCode,
                                         errorText |-> OutcomeOf(1).errorText]]>>

C7_Witness ==
    /\ connectionInfo.loginOnDemand
    /\ Len(answered) = 1 /\ Failed(1) /\ OutcomeOf(1).statusCode = 500
    /\ Len(delivered) = 1

(* C8: at most one exchange is outstanding at any time, and a replay is      *)
(* issued only after the login exchange completed successfully; login and    *)
(* replay are never outstanding together.                                    *)
C8_OneExchangeInFlight ==
    /\ Cardinality(pending) <= 1
    /\ \A k \in Replays :
          /\ k - 1 \in DOMAIN answered
          /\ answered[k - 1].exchange.id = k - 1
          /\ LoginSucceeded(k - 1)
    /\ ~(\E x \in pending, y \in pending : x.via = "logOn" /\ y.via = "go")

C8_Witness ==
    \E x \in pending : x.via = "go" /\ x.id \in Replays

-----------------------------------------------------------------------------
(* metadata.getAttributesForObject *)

MaxChain == 2
MaxRows == 2

\* Strings that are compared or lower-cased are sequences of character codes:
\* "a" = <<97>>, "B" = <<66>>, "Ab" = <<65, 98>>, "b" = <<98>>.
\* String.prototype.toLowerCase on such a string
toLowerCase(str) ==
    [i \in DOMAIN str |-> IF str[i] \in 65..90 THEN str[i] + 32 ELSE str[i]]

\* a < b on strings: the first differing character decides, a prefix is smaller
StrLess(a, b) ==
    \/ \E i \in DOMAIN a \cap DOMAIN b :
          /\ a[i] < b[i]
          /\ \A j \in 1..(i - 1) : a[j] = b[j]
    \/ /\ Len(a) < Len(b)
       /\ \A j \in DOMAIN a : a[j] = b[j]

\* The Metadata.AttributeType rows a class can have: Name, title and the
\* other queried attributes.
AttributeRows ==
    {[Name |-> "Id", title |-> <<97>>, DataType |-> "Int32", IsName |-> "False",
      PKeyNumber |-> "1"],
     [Name |-> "Id", title |-> <<66>>, DataType |-> "Guid", IsName |-> "False",
      PKeyNumber |-> "1"],
     [Name |-> "Title", title |-> <<65, 98>>, DataType |-> "String", IsName |-> "True",
      PKeyNumber |-> "0"],
     [Name |-> "Owner", title |-> <<98>>, DataType |-> "Object", IsName |-> "False",
      PKeyNumber |-> "0"]}

\* The rows of one class: attribute names are unique within a class.
RowSeqs ==
    {rows \in UNION {[1..k -> AttributeRows] : k \in 0..MaxRows} :
        \A i \in DOMAIN rows : \A j \in DOMAIN rows :
            i # j => rows[i].Name # rows[j].Name}

\* An inheritance chain: class 1 is the most derived one, class c + 1 is the
\* superclass of class c, the last class has no superclass.
Schemas == UNION {[1..n -> RowSeqs] : n \in 1..MaxChain}

ClassGuid(c) == "class" \o ToString(c)
SuperClassGuid(c) == IF c < Len(schema) THEN ClassGuid(c + 1) ELSE ""
ClassOf(guid) == CHOOSE c \in DOMAIN schema : ClassGuid(c) = guid
RowGuid(c, i) == "attr" \o ToString(c) \o "." \o ToString(i)

\* result.data.objects of the query cns = "Class.Guid-e-0", c0 = objectGuid
ObjectsOf(objectGuid) ==
    LET c == ClassOf(objectGuid)
    IN [i \in DOMAIN schema[c] |->
           [value |-> RowGuid(c, i),
            name |-> schema[c][i].title,
            attributes |-> [Name |-> schema[c][i].Name,
                            DataType |-> schema[c][i].DataType,
                            RelatedClassTypeGuid |-> "",
                            IsName |-> schema[c][i].IsName,
                            PKeyNumber |-> schema[c][i].PKeyNumber,
                            ClassSuperClassTypeGuid |-> SuperClassGuid(c)]]]

\* the failures a query can end with (the result m_returnError hands to onError)
QueryFailures ==
    {[statusCode |-> 403, errorText |-> "Not Logged In"],
     [statusCode |-> 500, errorText |-> "Object not found"]}

Traversal ==
    [attributesArray |-> attributesArray, attributeNames |-> attributeNames,
     querying |-> querying, queries |-> queries, attrDelivered |-> attrDelivered]

TraversalBecomes(s) ==
    /\ attributesArray' = s.attributesArray
    /\ attributeNames' = s.attributeNames
    /\ querying' = s.querying
    /\ queries' = s.queries
    /\ attrDelivered' = s.attrDelivered

\* attributeNames.indexOf(name) == -1
NotIn(names, name) == \A k \in DOMAIN names : names[k] # name

\* getAttributes: one runQuery for the attribute rows of objectGuid
getAttributes(s, objectGuid) ==
    [s EXCEPT !.queries = Append(@, objectGuid), !.querying = @ \cup {objectGuid}]

\* the for loop of getAttributesOnLoad without the indexOf test
RECURSIVE scanObjects_NoDedup(_, _, _)
scanObjects_NoDedup(objects, i, acc) ==
    IF i > Len(objects) THEN acc
    ELSE LET item == objects[i]
             attribute == [guid |-> item.value,
                           name |-> item.attributes.Name,
                           title |-> item.name,
                           type |-> item.attributes.DataType,
                           relatedClass |-> item.attributes.RelatedClassTypeGuid,
                           isName |-> (item.attributes.IsName = "True"),
                           isPrimaryKey |-> (item.attributes.PKeyNumber = "1")]
         IN scanObjects_NoDedup(objects, i + 1,
                [attributesArray |-> Append(acc.attributesArray, attribute),
                 attributeNames |-> Append(acc.attributeNames, attribute.name),
                 parentObjectGuid |-> item.attributes.ClassSuperClassTypeGuid])

\* the for loop of getAttributesOnLoad, from index i on
RECURSIVE scanObjects(_, _, _)
scanObjects(objects, i, acc) ==
    IF i > Len(objects) THEN acc
    ELSE LET item == objects[i]
             attribute == [guid |-> item.value,
                           name |-> item.attributes.Name,
                           title |-> item.name,
                           type |-> item.attributes.DataType,
                           relatedClass |-> item.attributes.RelatedClassTypeGuid,
                           isName |-> (item.attributes.IsName = "True"),
                           isPrimaryKey |-> (item.attributes.PKeyNumber = "1")]
             fresh == NotIn(acc.attributeNames, item.attributes.Name)
         IN scanObjects(objects, i + 1,
                [attributesArray |-> IF fresh THEN Append(acc.attributesArray, attribute)
                                     ELSE acc.attributesArray,
                 attributeNames |-> IF fresh THEN Append(acc.attributeNames, attribute.name)
                                    ELSE acc.attributeNames,
                 parentObjectGuid |-> item.attributes.ClassSuperClassTypeGuid])

\* the comparison function without toLowerCase
compareTitles_CaseSensitive(a, b) ==
    IF StrLess(a.title, b.title) THEN -1
    ELSE IF StrLess(b.title, a.title) THEN 1
    ELSE 0

\* the comparison function given to attributesArray.sort
compareTitles(a, b) ==
    LET titleA == toLowerCase(a.title)
        titleB == toLowerCase(b.title)
    IN IF StrLess(titleA, titleB) THEN -1
       ELSE IF StrLess(titleB, titleA) THEN 1
       ELSE 0

\* the arrays attributesArray.sort(compare) can leave: the order of elements
\* that compare equal depends on the engine's sort
Sorted(array) ==
    {sorted \in {[i \in DOMAIN array |-> array[f[i]]] : f \in Permutations(DOMAIN array)} :
        \A i \in DOMAIN sorted : \A j \in DOMAIN sorted :
            i < j => compareTitles(sorted[i], sorted[j]) <= 0}

\* metadata.getAttributesForObject(parameters) with the guid of the chain's
\* most derived class
getAttributesForObject ==
    /\ queries = <<>>
    /\ TraversalBecomes(getAttributes(Traversal, ClassGuid(1)))
    /\ UNCHANGED <<requestVars, schema, parserVars, sharedVars>>

\* the query for objectGuid succeeds: getAttributesOnLoad(result)
getAttributesOnLoad ==
    \E objectGuid \in querying :
        LET s == [Traversal EXCEPT !.querying = @ \ {objectGuid}]
            scan == scanObjects(ObjectsOf(objectGuid), 1,
                        [attributesArray |-> s.attributesArray,
                         attributeNames |-> s.attributeNames,
                         parentObjectGuid |-> ""])
            s1 == [s EXCEPT !.attributesArray = scan.attributesArray,
                            !.attributeNames = scan.attributeNames]
        IN /\ IF scan.parentObjectGuid # ""
              THEN TraversalBecomes(getAttributes(s1, scan.parentObjectGuid))
              ELSE \E sorted \in Sorted(s1.attributesArray) :
                      TraversalBecomes(
                          [s1 EXCEPT !.attributesArray = sorted,
                                     !.attrDelivered =
                                         Append(@, [callback |-> "onLoad",
                                                    result |-> [data |-> [attributes |-> sorted],
                                                                statusCode |-> 200]])])
           /\ UNCHANGED <<requestVars, schema, parserVars, sharedVars>>

\* a failed query reported to onError and issued again
getAttributesOnError_Retry ==
    \E objectGuid \in querying, failure \in QueryFailures :
        /\ Len(queries) <= MaxChain
        /\ TraversalBecomes(
               getAttributes(
                   [Traversal EXCEPT !.querying = @ \ {objectGuid},
                                     !.attrDelivered =
                                         Append(@, [callback |-> "onError",
                                                    result |-> failure])],
                   objectGuid))
        /\ UNCHANGED <<requestVars, schema, parserVars, sharedVars>>

\* the query for objectGuid fails: runQuery calls parameters.onError(result)
getAttributesOnError ==
    \E objectGuid \in querying, failure \in QueryFailures :
        /\ TraversalBecomes(
               [Traversal EXCEPT !.querying = @ \ {objectGuid},
                                 !.attrDelivered =
                                     Append(@, [callback |-> "onError", result |-> failure])])
        /\ UNCHANGED <<requestVars, schema, parserVars, sharedVars>>

InitMetadata ==
    /\ connectionInfo = [loginOnDemand |-> FALSE, loginOnDemandAutoLogOff |-> FALSE]
    /\ NoRequestYet
    /\ schema \in Schemas
    /\ NoTraversalYet
    /\ NoParseYet
    /\ NoRequestsYet

NextMetadata ==
    \/ getAttributesForObject
    \/ getAttributesOnLoad
    \/ getAttributesOnError

SpecMetadata == InitMetadata /\ [][NextMetadata]_vars

-----------------------------------------------------------------------------
\* the lists handed to the caller's onLoad
DeliveredLists ==
    {attrDelivered[k].result.data.attributes :
        k \in {k \in DOMAIN attrDelivered : attrDelivered[k].callback = "onLoad"}}

\* the first class of the chain, and its first row, returning an attribute name
FirstClassWith(name) ==
    LET having == {c \in DOMAIN schema : \E i \in DOMAIN schema[c] : schema[c][i].Name = name}
    IN CHOOSE c \in having : \A d \in having : c <= d

FirstRowWith(c, name) ==
    LET having == {i \in DOMAIN schema[c] : schema[c][i].Name = name}
    IN CHOOSE i \in having : \A j \in having : i <= j

(* C9: the delivered attribute list holds no two descriptors with the same   *)
(* name, and a name returned for a class and for one of its ancestors keeps  *)
(* the descriptor of the class queried first (the most derived one).         *)
C9_NoDuplicateNamesDerivedWins ==
    \A list \in DeliveredLists :
        /\ \A i \in DOMAIN list : \A j \in DOMAIN list :
              i # j => list[i].name # list[j].name
        /\ \A i \in DOMAIN list :
              LET c == FirstClassWith(list[i].name)
              IN /\ list[i].guid = RowGuid(c, FirstRowWith(c, list[i].name))
                 /\ list[i].title = schema[c][FirstRowWith(c, list[i].name)].title

C9_Witness ==
    \E list \in DeliveredLists :
        /\ Len(schema) >= 2
        /\ \E i \in DOMAIN schema[1], j \in DOMAIN schema[2] :
              /\ schema[1][i].Name = schema[2][j].Name
              /\ schema[1][i].title # schema[2][j].title
        /\ Len(queries) >= 2
        /\ Len(list) >= 2

(* C10: for a chain of N classes, with every query succeeding, exactly N     *)
(* queries are issued, one per class from the derived class to the root, and *)
(* onLoad is then called once, whatever rows the classes have (also for a    *)
(* class without attribute rows).                                            *)
C10_OneQueryPerClass ==
    (\E k \in DOMAIN attrDelivered : attrDelivered[k].callback = "onLoad") =>
        /\ queries = [c \in DOMAIN schema |-> ClassGuid(c)]
        /\ Len(attrDelivered) = 1

(* C11: when the query of a hierarchy level fails, the caller's onError is   *)
(* invoked with that failure, no further query is issued and onLoad is       *)
(* never invoked: the attributes accumulated so far are not delivered.       *)
C11_FailureAbortsTraversal ==
    (\E k \in DOMAIN attrDelivered : attrDelivered[k].callback = "onError") =>
        /\ Len(attrDelivered) = 1
        /\ attrDelivered[1].result \in QueryFailures
        /\ querying = {}
        /\ DeliveredLists = {}
        /\ ~ENABLED NextMetadata

C11_Witness ==
    /\ Len(attrDelivered) = 1
    /\ attrDelivered[1].callback = "onError"
    /\ Len(queries) = 2
    /\ attributesArray # <<>>

-----------------------------------------------------------------------------
(* webAccessConnector.parseQueryUrl *)

MaxCriteria == 2

\* A string is a sequence of pieces: each piece is one of the characters the
\* parser looks for ("&", "=", "?", "/") or a run of other characters.
\* "a=1&b" is <<"a", "=", "1", "&", "b">>, the empty string is <<>>.
RECURSIVE Text(_)
Text(str) == IF str = <<>> THEN "" ELSE Head(str) \o Text(Tail(str))

\* str.indexOf(piece, from): 0-based, -1 when absent
indexOf(str, piece, from) ==
    LET at == {i \in DOMAIN str : i - 1 >= from /\ str[i] = piece}
    IN IF at = {} THEN -1 ELSE (CHOOSE i \in at : \A j \in at : i <= j) - 1

\* str.substring(start, end): arguments clamped to 0..length and swapped
\* when start > end
substring(str, start, end) ==
    LET clamp(n) == IF n < 0 THEN 0 ELSE IF n > Len(str) THEN Len(str) ELSE n
        a == IF clamp(start) <= clamp(end) THEN clamp(start) ELSE clamp(end)
        b == IF clamp(start) <= clamp(end) THEN clamp(end) ELSE clamp(start)
    IN SubSeq(str, a + 1, b)

\* str.split(separator)
RECURSIVE split(_, _)
split(str, separator) ==
    LET at == indexOf(str, separator, 0)
    IN IF at = -1 THEN <<str>>
       ELSE <<SubSeq(str, 1, at)>> \o split(SubSeq(str, at + 2, Len(str)), separator)

\* array.join(separator)
RECURSIVE join(_, _)
join(array, separator) ==
    IF array = <<>> THEN <<>>
    ELSE IF Len(array) = 1 THEN array[1]
    ELSE array[1] \o <<separator>> \o join(Tail(array), separator)

\* array.slice(0, end)
slice(array, end) == SubSeq(array, 1, IF end < Len(array) THEN end ELSE Len(array))

\* queryString.substring(0, 4).toLowerCase() == "http"
StartsWithHttp(str) == str # <<>> /\ str[1] \in {"http:", "https:", "HTTP:", "HTTPS:"}

\* JavaScript values of the parsed parameters
JsString(s) == [type |-> "string", str |-> s, num |-> 0]
JsNumber(n) == [type |-> "number", str |-> "", num |-> n]
JsNaN == [type |-> "NaN", str |-> "", num |-> 0]

\* if (value) taken as true for every value
Truthy_Always(value) == TRUE

\* if (value): "", 0 and NaN are false
Truthy(value) ==
    \/ value.type = "string" /\ value.str # ""
    \/ value.type = "number" /\ value.num # 0

\* the pieces that are numerals, with their value
Numerals == [piece \in {"0", "50", "999"} |->
                CASE piece = "0" -> 0 [] piece = "50" -> 50 [] piece = "999" -> 999]

\* percent-decoding of one piece
decodePiece(piece) ==
    IF piece = "My%20Query" THEN "My Query" ELSE piece

\* decodeURIComponent(str); str is <<"undefined">> for an undefined argument
RECURSIVE decodeURIComponent(_)
decodeURIComponent(str) ==
    IF str = <<>> THEN "" ELSE decodePiece(Head(str)) \o decodeURIComponent(Tail(str))

\* isNaN(pair[1]) ? decodeURIComponent(pair[1]) : parseFloat(pair[1])
\* isNaN("") is false (Number("") is 0) and parseFloat("") is NaN
valueOf(pair) ==
    IF Len(pair) < 2 THEN JsString("undefined")
    ELSE IF pair[2] = <<>> THEN JsNaN
    ELSE IF Len(pair[2]) = 1 /\ pair[2][1] \in DOMAIN Numerals
         THEN JsNumber(Numerals[pair[2][1]])
    ELSE JsString(decodeURIComponent(pair[2]))

EmptyObject == [k \in {} |-> k]

\* the loop "for (var i in pairs)" filling obj, from index i on
RECURSIVE parseParameters(_, _, _)
parseParameters(pairs, i, obj) ==
    IF i > Len(pairs) THEN obj
    ELSE LET pair == split(pairs[i], "=")
             name == decodeURIComponent(pair[1])
         IN parseParameters(pairs, i + 1, SetField(obj, name, valueOf(pair)))

\* if (obj.key) taken as: the property exists
Given_Present(obj, key) == key \in DOMAIN obj

\* if (obj.key): the property exists and its value is true in a condition
Given(obj, key) == key \in DOMAIN obj /\ Truthy(obj[key])

\* the loop copying c0, c1, ... while obj["c" + i] is set, from index i on
RECURSIVE copyCriteria(_, _, _)
copyCriteria(obj, i, queryData) ==
    LET cn == "c" \o ToString(i)
    IN IF Given(obj, cn)
       THEN copyCriteria(obj, i + 1, SetField(queryData, cn, obj[cn]))
       ELSE queryData

\* the web access url taken from a full or a relative url
urlPrefix(str, firstPair, returnObject) ==
    IF StartsWithHttp(str)
    THEN SetField(returnObject, "webAccessUrl", Text(join(slice(split(firstPair, "/"), 4), "/")))
    ELSE IF substring(str, 0, 1) = <<"/">>
    THEN SetField(returnObject, "webAccessUrl",
                  Text(substring(str, 0, indexOf(str, "/", 1))))
    ELSE returnObject

Undefined == [called |-> TRUE, defined |-> FALSE]

\* the "&"-separated pairs, the first one without what precedes its "?"
pairsOf(str) ==
    LET pairs == split(str, "&")
        qMarkPos == indexOf(pairs[1], "?", 0)
    IN IF qMarkPos > -1
       THEN [pairs EXCEPT ![1] = substring(@, qMarkPos + 1, Len(@))]
       ELSE pairs

\* obj: the decoded name of every pair with its converted value
parametersOf(str) == parseParameters(pairsOf(str), 1, EmptyObject)

parseQueryUrl(str) ==
    LET pairs == split(str, "&")
        qMarkPos == indexOf(pairs[1], "?", 0)
        returnObject == IF qMarkPos > -1
                        THEN urlPrefix(str, pairs[1], EmptyObject)
                        ELSE EmptyObject
        obj == parametersOf(str)
        copy(queryData, key) ==
            IF Given(obj, key) THEN SetField(queryData, key, obj[key]) ELSE queryData
        q1 == SetField(EmptyObject, "class_name", obj["class_name"])
        q2 == IF Given(obj, "query") /\ ~Given(obj, "attributes")
              THEN SetField(q1, "query", obj["query"]) ELSE q1
        q3 == copy(copy(copy(q2, "attributes"), "page_size"), "sort_by")
        q4 == IF Given(obj, "cns")
              THEN copyCriteria(obj, 0, SetField(q3, "cns", obj["cns"]))
              ELSE q3
    IN IF ~Given(obj, "class_name") THEN Undefined
       ELSE [called |-> TRUE, defined |-> TRUE,
             returnObject |-> SetField(returnObject, "queryData", q4)]

\* The inputs: an optional url in front of "?", then parameters joined by "&"
Parameter(name, value) == <<<<name, "=">> \o value>>
Optional(parameterSets) == {<<>>} \cup parameterSets

Prefixes ==
    {<<>>,
     <<"https:", "/", "/", "host", "/", "app", "?">>,
     <<"https:", "/", "/", "host", "/", "app", "/", "wd", "/", "query", "/",
       "list.rails", "?">>,
     <<"/", "app", "/", "wd", "/", "query", "/", "list.rails", "?">>}

CriterionValues == {<<"Open">>, <<"0">>, <<>>}

\* any choice of c0 .. c(MaxCriteria - 1), each absent or with one of the values
CriteriaChoices ==
    LET choices == [0..(MaxCriteria - 1) -> CriterionValues \cup {<<"absent">>}]
        RECURSIVE list(_, _)
        list(choice, i) ==
            IF i >= MaxCriteria THEN <<>>
            ELSE (IF choice[i] = <<"absent">> THEN <<>>
                  ELSE Parameter("c" \o ToString(i), choice[i])) \o list(choice, i + 1)
    IN {list(choice, 0) : choice \in choices}

QueryStrings ==
    {prefix \o join(className \o query \o attributes \o pageSize \o cns \o criteria
                    \o other, "&") :
        prefix \in Prefixes,
        className \in Optional({Parameter("class_name", v) :
                                   v \in {<<"Incident">>, <<"0">>, <<>>}}),
        query \in Optional({Parameter("query", v) :
                               v \in {<<"MyQuery">>, <<"My%20Query">>}}),
        attributes \in Optional({Parameter("attributes", v) :
                                    v \in {<<"Title,Status">>, <<"0">>, <<>>}}),
        pageSize \in Optional({Parameter("page_size", <<"50">>)}),
        cns \in Optional({Parameter("cns", <<"Status-e-0">>)}),
        criteria \in CriteriaChoices,
        other \in Optional({Parameter("foo", <<"bar">>), <<<<"foo">>>>})}

parseQueryUrlCall ==
    /\ parseResult = NotParsed
    /\ parseResult' = parseQueryUrl(queryString)
    /\ UNCHANGED <<requestVars, metadataVars, queryString, sharedVars>>

InitParser ==
    /\ connectionInfo = [loginOnDemand |-> FALSE, loginOnDemandAutoLogOff |-> FALSE]
    /\ NoRequestYet
    /\ schema = <<>>
    /\ NoTraversalYet
    /\ queryString \in QueryStrings
    /\ parseResult = NotParsed
    /\ NoRequestsYet

NextParser == parseQueryUrlCall

SpecParser == InitParser /\ [][NextParser]_vars

-----------------------------------------------------------------------------
(* Claims about parseQueryUrl *)

Parsed == parseResult.called
Returned == parseResult.called /\ parseResult.defined
queryData == parseResult.returnObject["queryData"]
InputParameters == parametersOf(queryString)
ShortUrl == <<"https:", "/", "/", "host", "/", "app", "?">>
HasPrefix(str, prefix) ==
    Len(str) >= Len(prefix) /\ SubSeq(str, 1, Len(prefix)) = prefix
CriterionName(i) == "c" \o ToString(i)
NotSet == {JsNaN, JsNumber(0), JsString("")}

\* C12: for a full url of the form scheme://host/app?<parameters> the result's
\* webAccessUrl is "https://host/app", with no part of the query string, and
\* the example url gives queryData {class_name: "Incident", query: "MyQuery",
\* page_size: 50} with page_size a number.
C12_FullUrlBase ==
    (Parsed /\ HasPrefix(queryString, ShortUrl)) =>
        /\ parseResult.defined =>
              parseResult.returnObject["webAccessUrl"] = "https://host/app"
        /\ queryString = ShortUrl \o <<"class_name", "=", "Incident", "&",
                                       "query", "=", "MyQuery", "&",
                                       "page_size", "=", "50">> =>
              /\ parseResult.defined
              /\ queryData = [class_name |-> JsString("Incident"),
                              query |-> JsString("MyQuery"),
                              page_size |-> JsNumber(50)]

\* C13: when a result is returned and the input has a cns parameter, queryData
\* has cns and exactly c0 .. c(k-1), k the smallest index whose ck does not
\* occur in the input, whatever values the ci carry; without cns no ci is
\* output.
C13_CriteriaUpToFirstMissing ==
    Returned =>
        \A i \in 0..(MaxCriteria - 1) :
            CriterionName(i) \in DOMAIN queryData <=>
                /\ "cns" \in DOMAIN InputParameters
                /\ "cns" \in DOMAIN queryData
                /\ \A j \in 0..i : CriterionName(j) \in DOMAIN InputParameters

\* C14 as stated: queryData.query is present only if the input has a query
\* parameter and no attributes parameter; an attributes parameter is copied to
\* the output and query is omitted.
C14_AttributesReplaceQuery ==
    Returned =>
        /\ "query" \in DOMAIN queryData =>
              /\ "query" \in DOMAIN InputParameters
              /\ "attributes" \notin DOMAIN InputParameters
        /\ "attributes" \in DOMAIN InputParameters =>
              /\ "attributes" \in DOMAIN queryData
              /\ "query" \notin DOMAIN queryData

\* C14: queryData.query is present only if the input has a query parameter and
\* no attributes parameter with a value other than empty or 0; an attributes
\* parameter with such a value is copied to the output and query is omitted;
\* an attributes parameter that is empty or 0 is not copied and does not
\* suppress query.
C14_SetAttributesReplaceQuery ==
    Returned =>
        LET attributesSet == /\ "attributes" \in DOMAIN InputParameters
                             /\ InputParameters["attributes"] \notin NotSet
        IN /\ "query" \in DOMAIN queryData <=>
                 "query" \in DOMAIN InputParameters /\ ~attributesSet
           /\ "query" \in DOMAIN queryData =>
                 queryData["query"] = InputParameters["query"]
           /\ "attributes" \in DOMAIN queryData <=> attributesSet
           /\ attributesSet => queryData["attributes"] = InputParameters["attributes"]

C14_Witness ==
    /\ Returned
    /\ {"query", "attributes", "cns", "c0"} \subseteq DOMAIN InputParameters
    /\ InputParameters["attributes"] = JsString("Title,Status")
    /\ {"attributes", "cns", "c0"} \subseteq DOMAIN queryData
    /\ "query" \notin DOMAIN queryData

\* C15 as stated: no result is returned exactly when the input has no
\* class_name parameter; with a class_name parameter a result is returned
\* whose queryData.class_name is the parameter's decoded value.
C15_NoResultIffNoClassName ==
    Parsed =>
        /\ ~parseResult.defined <=> "class_name" \notin DOMAIN InputParameters
        /\ "class_name" \in DOMAIN InputParameters =>
              /\ parseResult.defined
              /\ queryData["class_name"] = InputParameters["class_name"]

\* C15: no result is returned exactly when the input has no class_name
\* parameter or its value is empty or 0; otherwise a result is returned whose
\* queryData.class_name is the parameter's decoded value.
C15_NoResultIffClassNameNotSet ==
    Parsed =>
        LET classNameSet == /\ "class_name" \in DOMAIN InputParameters
                            /\ InputParameters["class_name"] \notin NotSet
        IN /\ parseResult.defined <=> classNameSet
           /\ classNameSet =>
                 /\ queryData["class_name"] = InputParameters["class_name"]
                 /\ queryData["class_name"].type = "string"

C15_Witness ==
    /\ queryString = <<"foo", "=", "bar">>
    /\ parseResult = Undefined

-----------------------------------------------------------------------------
(* Claims about the request machine, continued *)

\* the operations whose request is started with go()
StartedWithGo == parameters.operation \in {"runQuery", "openRecord", "invokeFunction"}

\* C16: a successful query.runQuery whose response reports pageCount 1
\* delivers to onLoad an objectCount equal to the number of objects, also when
\* the response is that of the replay after an on-demand login; for any other
\* pageCount the objectCount is delivered as received.
C16_SinglePageCountCorrected ==
    parameters.operation = "runQuery" =>
        \A k \in Calls("onLoad") : \A i \in DOMAIN answered :
            (IsCall(i) /\ Loaded(i) /\ "pageCount" \in DOMAIN OutcomeOf(i).responseData) =>
                LET received == OutcomeOf(i).responseData
                    data == delivered[k].result.data
                IN /\ data.pageCount = received.pageCount
                   /\ data.objects = received.objects
                   /\ data.objectCount = IF received.pageCount = 1
                                         THEN received.objects
                                         ELSE received.objectCount

C16_Witness ==
    /\ parameters.operation = "runQuery"
    /\ \E i \in DOMAIN answered :
          /\ IsReplay(i) /\ Loaded(i)
          /\ OutcomeOf(i).responseData = QueryPage1
    /\ Len(delivered) = 1
    /\ delivered[1].callback = "onLoad"
    /\ delivered[1].result.data.objectCount = 2

\* C17: whenever an on-demand login succeeds, the next exchange issued by the
\* request has the same path, verb and payload as the exchange whose 403
\* triggered the login, for every operation including an explicit user.logOff.
C17_ReplayRepeatsTheCall ==
    \A i \in DOMAIN answered :
        LoginSucceeded(i) =>
            LET login == answered[i].exchange.id
            IN /\ login - 1 \in DOMAIN issued
               /\ login + 1 \in DOMAIN issued
               /\ issued[login + 1].url = issued[login - 1].url
               /\ issued[login + 1].requestType = issued[login - 1].requestType
               /\ issued[login + 1].data = issued[login - 1].data

\* C18: when the automatic logout is armed and the replayed call fails, a
\* logout exchange is issued, and onError is invoked only after that exchange
\* has completed, with the status code and error text of the replay's failure,
\* whether the logout succeeded or failed.
C18_FailureReportedAfterLogout ==
    \A i \in DOMAIN answered :
        (m_autoLogOff /\ IsReplay(i) /\ Failed(i)) =>
            /\ Len(issued) = i + 1
            /\ issued[i + 1].via = "logOff"
            /\ Calls("onLoad") = {}
            /\ Len(answered) = i => (delivered = <<>> /\ issued[i + 1] \in pending)
            /\ Len(answered) > i =>
                  /\ pending = {}
                  /\ answered[i + 1].exchange = issued[i + 1]
                  /\ parameters.onError =>
                        delivered = <<[callback |-> "onError",
                                       result |-> [statusCode |-> OutcomeOf(i).statusCode,
                                                   errorText |-> OutcomeOf(i).errorText]]>>

C18_Witness ==
    \E i \in DOMAIN answered :
        /\ m_autoLogOff /\ IsReplay(i) /\ Failed(i)
        /\ Len(answered) = i + 1
        /\ Failed(i + 1)
        /\ OutcomeOf(i + 1).statusCode # OutcomeOf(i).statusCode
        /\ Len(delivered) = 1
        /\ delivered[1].callback = "onError"

\* C19: in a request started with go(), a logout exchange is issued if and
\* only if loginOnDemandAutoLogOff is configured and an on-demand login
\* succeeded earlier in the request, and then exactly once, after the replay
\* completed; a request that ends on its first exchange, or whose on-demand
\* login fails, issues no logout.
C19_LogoutOnlyAfterOnDemandLogin ==
    StartedWithGo =>
        /\ Cardinality(Logouts) <= 1
        /\ \A k \in Logouts :
              /\ connectionInfo.loginOnDemandAutoLogOff
              /\ k - 1 \in DOMAIN answered
              /\ answered[k - 1].exchange = issued[k - 1]
              /\ IsReplay(k - 1)
        /\ \A i \in DOMAIN answered :
              (connectionInfo.loginOnDemandAutoLogOff /\ IsReplay(i)) => Logouts # {}
        /\ (pending = {} /\ Len(issued) = 1) => Logouts = {}
        /\ \A i \in DOMAIN answered :
              (IsOnDemandLogin(i) /\ (Failed(i) \/ Rejected(i))) => Logouts = {}

\* C20: for every Success outcome of a request started with go(), loggedOn is
\* true exactly when a login exchange was issued (and succeeded) during the
\* request and loggedOff is true exactly when a logout exchange was issued; a
\* call that succeeds on its first exchange reports both as false.
C20_FlagsTellWhatHappened ==
    StartedWithGo =>
        \A k \in Calls("onLoad") :
            LET result == delivered[k].result
            IN /\ result.loggedOn <=> Logins # {}
               /\ result.loggedOn <=> \E i \in DOMAIN answered : LoginSucceeded(i)
               /\ result.loggedOff <=> Logouts # {}
               /\ Len(issued) = 1 => (~result.loggedOn /\ ~result.loggedOff)

C20_Witness ==
    /\ StartedWithGo
    /\ Len(delivered) = 1
    /\ delivered[1].callback = "onLoad"
    /\ delivered[1].result.loggedOn
    /\ delivered[1].result.loggedOff

-----------------------------------------------------------------------------
(* Claims about what reaches the caller *)

\* C21: over every sequence of transport outcomes the caller's continuations
\* are invoked at most once in total: never both onLoad and onError, and
\* neither of them twice.
C21_AtMostOneContinuation ==
    /\ Len(delivered) <= 1
    /\ ~(Calls("onLoad") # {} /\ Calls("onError") # {})

C21_Witness ==
    /\ Len(answered) = 4
    /\ pending = {}
    /\ Len(delivered) = 1

\* C22: whenever no exchange of a started request is outstanding, exactly one
\* of onLoad and onError has been invoked, after at most four exchanges
\* (original call, login, replay, logout); stated for a caller that supplied
\* both continuations.
C22_EveryRequestEnds ==
    (~Idle /\ parameters.onLoad /\ parameters.onError) =>
        /\ Len(issued) <= 4
        /\ pending = {} => Len(delivered) = 1

\* C24: in a request started with go(), the configured responseProcessor is
\* invoked exactly once for every outcome delivered to onLoad, on the body of
\* the exchange whose data is delivered and before the delivery, and never on
\* the body of the on-demand login or logout response.
C24_ProcessorOncePerSuccess ==
    StartedWithGo =>
        /\ \A p \in DOMAIN processed :
              /\ parameters.responseProcessor
              /\ issued[processed[p].exchanges].via = "go"
        /\ \A k \in Calls("onLoad") :
              IF parameters.responseProcessor
              THEN /\ Len(processed) = 1
                   /\ \E i \in DOMAIN answered :
                         /\ IsCall(i) /\ Loaded(i)
                         /\ answered[i].exchange.id = processed[1].exchanges
                         /\ processed[1].data = OutcomeOf(i).responseData
                         /\ delivered[k].result.response = answered[i].response
                         /\ delivered[k].result.statusCode = answered[i].response.status
              ELSE processed = <<>>

C24_Witness ==
    /\ parameters.operation = "runQuery"
    /\ Len(answered) = 4
    /\ processed = <<[data |-> QueryPage1, exchanges |-> 3]>>
    /\ Len(delivered) = 1
    /\ delivered[1].callback = "onLoad"

\* C25: a login rejected inside a 200 response (JSON body with result =
\* false) is never reported as a Success: for the on-demand login and for an
\* explicit user.logOn alike, onError is invoked with the body's message and
\* onLoad is not invoked.
C25_RejectedLoginIsFailure ==
    \A i \in DOMAIN answered :
        (IsLogin(i) /\ Rejected(i)) =>
            /\ Calls("onLoad") = {}
            /\ parameters.onError =>
                  /\ Len(delivered) = 1
                  /\ delivered[1].callback = "onError"
                  /\ delivered[1].result.errorText = OutcomeOf(i).responseData.message

\* a completed exchange with status 200 whose body is not JSON text
InvalidJson200(i) ==
    /\ answered[i].response.event = "load"
    /\ answered[i].response.status = 200
    /\ ~answered[i].response.integratedLogonFailed
    /\ ~JSON_parse(answered[i].response.responseText).ok

\* C27 as stated: status 200 with a body that is not valid JSON gives, when
\* JSON was required, onError with the error text "Invalid Response" and no
\* onLoad; when JSON was not required, onLoad with the raw body text and no
\* onError.
C27_InvalidResponseText ==
    (Len(answered) >= 1 /\ InvalidJson200(1)) =>
        IF answered[1].exchange.requireJSON
        THEN /\ Calls("onLoad") = {}
             /\ parameters.onError =>
                   /\ Len(delivered) = 1
                   /\ delivered[1].callback = "onError"
                   /\ delivered[1].result.errorText = "Invalid Response"
        ELSE /\ Calls("onError") = {}
             /\ parameters.onLoad =>
                   /\ Len(delivered) = 1
                   /\ delivered[1].callback = "onLoad"
                   /\ delivered[1].result.data = answered[1].response.responseText

\* C27: status 200 with a body that is not valid JSON gives, when JSON was
\* required, onError with status code 200 and the error text "Invalid
\* Response (200)", or the exception message of the body when it is an error
\* page, and no onLoad; when JSON was not required, onLoad with the raw body
\* text and no onError.
C27_InvalidResponseTextWithStatus ==
    /\ \A i \in DOMAIN answered :
          InvalidJson200(i) =>
              IF answered[i].exchange.requireJSON
              THEN /\ Failed(i)
                   /\ OutcomeOf(i).statusCode = 200
                   /\ OutcomeOf(i).errorText =
                          IF answered[i].response.responseText = ErrorPage
                          THEN "Object not found"
                          ELSE "Invalid Response (200)"
              ELSE /\ Loaded(i)
                   /\ OutcomeOf(i).responseData = answered[i].response.responseText
    /\ (Len(answered) >= 1 /\ InvalidJson200(1)) =>
        IF answered[1].exchange.requireJSON
        THEN /\ Calls("onLoad") = {}
             /\ parameters.onError =>
                   delivered =
                       <<[callback |-> "onError",
                          result |->
                              [statusCode |-> 200,
                               errorText |->
                                   IF answered[1].response.responseText = ErrorPage
                                   THEN "Object not found"
                                   ELSE "Invalid Response (200)"]]>>
        ELSE /\ Calls("onError") = {}
             /\ parameters.onLoad =>
                   /\ Len(delivered) = 1
                   /\ delivered[1].callback = "onLoad"
                   /\ delivered[1].result.data = answered[1].response.responseText

C27_Witness ==
    /\ Len(answered) = 1
    /\ InvalidJson200(1)
    /\ answered[1].exchange.requireJSON
    /\ answered[1].response.responseText = PlainText
    /\ Len(delivered) = 1
    /\ delivered[1].result.errorText = "Invalid Response (200)"

\* C26: the attribute list delivered by getAttributesForObject is ordered by
\* title compared case-insensitively (lower-cased titles never decrease along
\* the list) and is a permutation of the descriptors accumulated over all
\* levels, so attributes of derived and ancestor classes are interleaved.
C26_SortedByLowerCasedTitle ==
    \A list \in DeliveredLists :
        /\ \A i \in DOMAIN list : \A j \in DOMAIN list :
              i < j => ~StrLess(toLowerCase(list[j].title), toLowerCase(list[i].title))
        /\ Len(list) = Len(attributeNames)
        /\ \E f \in Permutations(DOMAIN list) :
              \A i \in DOMAIN list : list[i].name = attributeNames[f[i]]

C26_Witness ==
    \E list \in DeliveredLists :
        \E i \in DOMAIN list, j \in DOMAIN list, k \in DOMAIN list :
            /\ i < j /\ j < k
            /\ list[i].guid = RowGuid(1, 1)
            /\ list[j].guid = RowGuid(2, 1)
            /\ list[k].guid = RowGuid(1, 2)
            /\ list[j].title # toLowerCase(list[j].title)

-----------------------------------------------------------------------------
(* Several requests of one connector against one service session *)

MaxRequests == 2

\* the closure state of a webAccessRequest before a facade operation starts it
NewRequestState ==
    [parameters |-> NoRequest, m_loginAttempted |-> FALSE, m_autoLogOff |-> FALSE,
     m_loggedOn |-> FALSE, m_loggedOff |-> FALSE, m_result |-> NullResult,
     m_resultIsSuccess |-> FALSE, pending |-> {}, issued |-> <<>>,
     delivered |-> <<>>, processed |-> <<>>]

\* The service with valid credentials: a login logs the session on, a logout
\* logs it off, any other call is answered 200 while the session is logged on
\* and 403 otherwise.
serviceResponse(x) ==
    IF x.via = "logOn" THEN Xhr("load", 200, "OK", FALSE, JsonText(LogonOk))
    ELSE IF x.via = "logOff" THEN Xhr("load", 200, "OK", FALSE, PlainText)
    ELSE IF session THEN Xhr("load", 200, "OK", FALSE, JsonText(QueryPage1))
    ELSE Xhr("load", 403, "Forbidden", FALSE, PlainText)

sessionAfter(x) ==
    IF x.via = "logOn" THEN TRUE
    ELSE IF x.via = "logOff" THEN FALSE
    ELSE session

\* query.runQuery / record.openRecord called while other requests are in flight
startRequest ==
    \E r \in DOMAIN requests :
        /\ requests[r].parameters.operation = "none"
        /\ \E parameters_r \in
                 {NewRequest("runQuery", "/query/list.rails", requestType.get,
                             "queryData", TRUE, TRUE, TRUE, TRUE),
                  NewRequest("openRecord", "/object/open.rails", requestType.get,
                             "openData", FALSE, TRUE, TRUE, TRUE)} :
              requests' = [requests EXCEPT ![r] = go([@ EXCEPT !.parameters = parameters_r])]
        /\ UNCHANGED <<requestVars, metadataVars, parserVars, session>>

\* the service answers one outstanding exchange of one request
serve ==
    \E r \in DOMAIN requests :
        \E x \in requests[r].pending :
            /\ requests' = [requests EXCEPT
                               ![r] = xhrDone([@ EXCEPT !.pending = @ \ {x}], x,
                                              serviceResponse(x))]
            /\ session' = sessionAfter(x)
            /\ UNCHANGED <<requestVars, metadataVars, parserVars>>

InitShared ==
    /\ connectionInfo = [loginOnDemand |-> TRUE, loginOnDemandAutoLogOff |-> TRUE]
    /\ NoRequestYet
    /\ schema = <<>>
    /\ NoTraversalYet
    /\ NoParseYet
    /\ requests = [r \in 1..MaxRequests |-> NewRequestState]
    /\ session \in BOOLEAN

NextShared ==
    \/ startRequest
    \/ serve

SpecShared == InitShared /\ [][NextShared]_vars

\* C23: with valid credentials, loginOnDemand and loginOnDemandAutoLogOff, and
\* a service that answers 403 only while the shared session is logged off,
\* concurrent requests of one connector all end in Success: no interleaving of
\* their login, replay and logout exchanges makes one deliver a 403 Failure.
C23_ConcurrentRequestsSucceed ==
    \A r \in DOMAIN requests :
        /\ \A k \in DOMAIN requests[r].delivered :
              requests[r].delivered[k].callback = "onLoad"
        /\ (requests[r].parameters.operation # "none" /\ requests[r].pending = {}) =>
              Len(requests[r].delivered) = 1

====
